---- MODULE Spec2Model ----
(***************************************************************************)
(* Aiogoogle (aiogoogle/client.py): the dispatch orchestrator.             *)
(*                                                                         *)
(* One Aiogoogle instance is shared by NumTasks asyncio tasks.  A task is  *)
(* idle or inside one call on the instance; a call runs atomically from    *)
(* one `await` to the next (single-threaded cooperative scheduling), so    *)
(* there is one action per entry point, up to its first await, and one     *)
(* action per resumption after an await.                                   *)
(*                                                                         *)
(* The auth managers and the transport session are not part of client.py:  *)
(* is_expired, refresh, authorize, the session factory and the session's   *)
(* send / __aexit__ are modelled from their described contracts.           *)
(***************************************************************************)
EXTENDS Integers, Sequences, FiniteSets, TLC

\* ---------------------------------------------------------------- bounds
NumTasks == 2
MaxSessions == 2
MaxBatch == 2
MaxTime == 1

Tasks == 1..NumTasks

\* ---------------------------------------------------------------- values
\* Python's None, as a value comparable with the credential records.
None == [kind |-> "None"]

\* active_session holds None or a session; sessions are numbered from 1 in
\* creation order and NoSession stands for None in that numbering.
NoSession == 0

ApiKey == [kind |-> "ApiKey", key |-> "K"]
ClientCreds == [kind |-> "ClientCreds", id |-> "C"]
UserCreds(access, expires_at) ==
    [kind |-> "UserCreds", access |-> access, expires_at |-> expires_at]

\* What a call of a coroutine function returns when it is not awaited: a
\* coroutine object that has not started.  `of` is the access token of the
\* credential it was called with (0 when that was not a UserCreds),
\* `outcome` what awaiting it would produce: a new UserCreds, or the
\* AuthRefreshError of a token endpoint that rejects the grant.
Coroutine(creds, client, outcome) ==
    [kind |-> "coroutine",
     of |-> IF creds.kind = "UserCreds" THEN creds.access ELSE 0,
     client |-> client.kind,
     outcome |-> outcome]

RefreshOutcomes == {"UserCreds", "AuthRefreshError"}

NoAuth == [mgr |-> "none", cred |-> None]
Request(method, params) == [method |-> method, params |-> params, auth |-> NoAuth]

\* timeout=None or a number of seconds
Timeouts == {"None", "10"}

\* the batches a caller passes: n distinct requests, n >= 1
Batches == {[i \in 1..n |-> Request("call", <<i>>)] : n \in 1..MaxBatch}

\* ---------------------------------------------------------------- state
VARIABLES
    api_key, user_creds, client_creds, timeout,   \* Aiogoogle fields
    active_session,                               \* Aiogoogle.active_session
    sessions,        \* every session the factory made: [state, timeout]
    now,             \* the clock is_expired reads
    pc,              \* per task: "idle" or the await it is suspended at
    op,              \* per task: the entry point it called
    args,            \* per task: the arguments it called it with
    frame,           \* per task: the method of the instance it is inside
    wrapped,         \* per task: inside the `async with self` of list_api/discover
    sess,            \* per task: the session its pending await is on
    batch,           \* per task: the requests handed to send
    body,            \* per task: outcome of its `async with` body [exc, value]
    result,          \* per task: outcome of its last call [exc, value]
    log              \* per task: what its current (or last) call did, in order

vars == <<api_key, user_creds, client_creds, timeout, active_session, sessions,
          now, pc, op, args, frame, wrapped, sess, batch, body, result, log>>

config == <<api_key, client_creds, timeout>>

NoResult == [exc |-> "none", value |-> <<>>]

\* ------------------------------------------------------- auth managers
\* Oauth2Manager.is_expired(creds): the set of outcomes of the call.  It is
\* true exactly when the expiry of the credential has passed.  What is not a
\* UserCreds (None, a coroutine object) has no expiry that could have passed:
\* the call answers something that is not True, or raises.
is_expired(creds) ==
    IF creds.kind = "UserCreds"
    THEN {IF creds.expires_at <= now THEN "True" ELSE "False"}
    ELSE {"False", "TypeError"}

\* Oauth2Manager.refresh(user_creds, client_creds=...): a network round trip,
\* hence a coroutine function: calling it runs nothing and returns a
\* coroutine object; only awaiting that object performs the round trip.
refresh(creds, client, outcome) == Coroutine(creds, client, outcome)

\* manager.authorize(request, creds): stamps the request with the credential
\* it is given; it neither validates nor refreshes the credential.
authorize(mgr, request, creds) == [request EXCEPT !.auth = [mgr |-> mgr, cred |-> creds]]

\* ------------------------------------------------------- the transport
\* session_factory(timeout=self.timeout): a new session object
session_factory(t_o) == [state |-> "live", timeout |-> t_o]

Live(ss) == {h \in 1..Len(ss) : ss[h].state = "live"}
Released(ss) == {h \in 1..Len(ss) : ss[h].state = "released"}

\* ------------------------------------------------------- discovery service
\* self.discovery_service.apis.list(name=, preffered=, fields=, validate=False)
apis_list(name, preffered, fields) ==
    Request("apis.list", <<name, preffered, fields>>)
\* self.discovery_service.apis.getRest(api=, version=, validate=False)
apis_getRest(api, version) == Request("apis.getRest", <<api, version>>)

\* What the directory can answer to apis.list: no item, or the items of two
\* versions of the API.
ItemLists ==
    {<<>>,
     <<[name |-> "youtube", version |-> "v3"], [name |-> "youtube", version |-> "v2"]>>}

Init ==
    /\ api_key \in {None, ApiKey}
    /\ user_creds \in {None} \cup {UserCreds(1, e) : e \in 0..MaxTime}
    /\ client_creds \in {None, ClientCreds}
    /\ timeout \in Timeouts
    /\ active_session = NoSession
    /\ sessions = <<>>
    /\ now = 0
    /\ pc = [t \in Tasks |-> "idle"]
    /\ op = [t \in Tasks |-> "none"]
    /\ args = [t \in Tasks |-> <<>>]
    /\ frame = [t \in Tasks |-> "none"]
    /\ wrapped = [t \in Tasks |-> FALSE]
    /\ sess = [t \in Tasks |-> NoSession]
    /\ batch = [t \in Tasks |-> <<>>]
    /\ body = [t \in Tasks |-> NoResult]
    /\ result = [t \in Tasks |-> NoResult]
    /\ log = [t \in Tasks |-> <<>>]

\* ------------------------------------------------------- a task's frame
\* The call of task t ends: it returns `value` (exc = "none") or raises exc.
Return(t, exc, value, lg) ==
    /\ pc' = [pc EXCEPT ![t] = "idle"]
    /\ result' = [result EXCEPT ![t] = [exc |-> exc, value |-> value]]
    /\ log' = [log EXCEPT ![t] = lg]
    /\ frame' = [frame EXCEPT ![t] = "none"]
    /\ wrapped' = [wrapped EXCEPT ![t] = FALSE]
    /\ sess' = [sess EXCEPT ![t] = NoSession]
    /\ batch' = [batch EXCEPT ![t] = <<>>]
    /\ body' = [body EXCEPT ![t] = NoResult]

\* Task t suspends at the await `label` on session s, inside method f.
Suspend(t, label, f, w, s, b, bd, lg) ==
    /\ pc' = [pc EXCEPT ![t] = label]
    /\ result' = [result EXCEPT ![t] = NoResult]
    /\ log' = [log EXCEPT ![t] = lg]
    /\ frame' = [frame EXCEPT ![t] = f]
    /\ wrapped' = [wrapped EXCEPT ![t] = w]
    /\ sess' = [sess EXCEPT ![t] = s]
    /\ batch' = [batch EXCEPT ![t] = b]
    /\ body' = [body EXCEPT ![t] = bd]

\* `await self.active_session.send(*b, ...)` up to the await, a being the
\* value of self.active_session: None has no attribute send.
SendOn(t, f, w, a, b, lg) ==
    IF a = NoSession
    THEN Return(t, "AttributeError", <<>>, lg)
    ELSE Suspend(t, "send", f, w, a, b, NoResult, Append(lg, <<"send", a, b>>))

\* Dispatch waiting for the session another call is creating, when there is one
Dispatch_JoinsPending(t, f, req, a, ss, lg) ==
    IF a = NoSession
    THEN IF \E u \in Tasks : pc[u] = "aenter"
         THEN /\ sessions' = ss
              /\ Suspend(t, "aenter", f, TRUE,
                         sess[CHOOSE u \in Tasks : pc[u] = "aenter"], <<req>>,
                         NoResult, lg)
         ELSE /\ Len(ss) < MaxSessions
              /\ sessions' = Append(ss, session_factory(timeout))
              /\ Suspend(t, "aenter", f, TRUE, Len(ss) + 1, <<req>>, NoResult,
                         Append(lg, <<"create", Len(ss) + 1>>))
    ELSE /\ sessions' = ss
         /\ SendOn(t, f, FALSE, a, <<req>>, lg)

\* Dispatch entering `async with self` whether or not a session is active
Dispatch_AlwaysWraps(t, f, req, a, ss, lg) ==
    /\ Len(ss) < MaxSessions
    /\ sessions' = Append(ss, session_factory(timeout))
    /\ Suspend(t, "aenter", f, TRUE, Len(ss) + 1, <<req>>, NoResult,
               Append(lg, <<"create", Len(ss) + 1>>))

\* Dispatch sending through as_api_key when an API key is stored
Dispatch_AsApiKey(t, f, req, a, ss, lg) ==
    LET keyed == api_key # None
        r == IF keyed THEN authorize("api_key", req, api_key) ELSE req
        l == IF keyed THEN Append(lg, <<"authorize", "api_key", req, api_key>>) ELSE lg
    IN  IF a = NoSession
        THEN /\ Len(ss) < MaxSessions
             /\ sessions' = Append(ss, session_factory(timeout))
             /\ Suspend(t, "aenter", f, TRUE, Len(ss) + 1, <<r>>, NoResult,
                        Append(l, <<"create", Len(ss) + 1>>))
        ELSE /\ sessions' = ss
             /\ SendOn(t, f, FALSE, a, <<r>>, l)

\* list_api / discover: `if self.active_session is None: async with self:
\* res = await self.as_anon(request)  else: res = await self.as_anon(request)`,
\* up to the first await; a is self.active_session and ss the sessions made.
Dispatch(t, f, req, a, ss, lg) ==
    IF a = NoSession
    THEN /\ Len(ss) < MaxSessions
         /\ sessions' = Append(ss, session_factory(timeout))
         /\ Suspend(t, "aenter", f, TRUE, Len(ss) + 1, <<req>>, NoResult,
                    Append(lg, <<"create", Len(ss) + 1>>))
    ELSE /\ sessions' = ss
         /\ SendOn(t, f, FALSE, a, <<req>>, lg)

\* The exit of `async with self`: Aiogoogle.__aexit__ up to its await.
BeginExit(t, bd, lg) ==
    IF active_session = NoSession
    THEN Return(t, "AttributeError", <<>>, lg)
    ELSE Suspend(t, "aexit", frame[t], TRUE, active_session, batch[t], bd, lg)

\* AfterAnon without the check that the list has an item: the document of
\* the name asked for is fetched with no version
AfterAnon_NoEmptyCheck(t, v, a, ss, lg) ==
    IF frame[t] = "list_api" /\ op[t] = "discover"
    THEN IF v[1].items # <<>>
         THEN Dispatch(t, "discover",
                       apis_getRest(v[1].items[1].name, v[1].items[1].version),
                       a, ss, lg)
         ELSE Dispatch(t, "discover", apis_getRest(args[t][1], "None"), a, ss, lg)
    ELSE sessions' = ss /\ Return(t, "none", v, lg)

\* list_api / discover after `res = await self.as_anon(request)` gave v and
\* the `async with`, if any, was left.
AfterAnon(t, v, a, ss, lg) ==
    IF frame[t] = "list_api" /\ op[t] = "discover"
    THEN IF v[1].items # <<>>
         THEN Dispatch(t, "discover",
                       apis_getRest(v[1].items[1].name, v[1].items[1].version),
                       a, ss, lg)
         ELSE sessions' = ss /\ Return(t, "ValueError", <<>>, lg)
    ELSE sessions' = ss /\ Return(t, "none", v, lg)

\* room for the sessions a call will make when none is active
Room(n) == active_session = NoSession => Len(sessions) + n <= MaxSessions

\* ------------------------------------------------------- entry points
aenter(t) ==
    /\ pc[t] = "idle"
    /\ Len(sessions) < MaxSessions
    /\ op' = [op EXCEPT ![t] = "aenter"]
    /\ args' = [args EXCEPT ![t] = <<>>]
    /\ sessions' = Append(sessions, session_factory(timeout))
    /\ Suspend(t, "aenter", "none", FALSE, Len(sessions) + 1, <<>>, NoResult,
               <<<<"create", Len(sessions) + 1>>>>)
    /\ UNCHANGED <<user_creds, config, active_session, now>>

aexit(t) ==
    /\ pc[t] = "idle"
    /\ op' = [op EXCEPT ![t] = "aexit"]
    /\ args' = [args EXCEPT ![t] = <<>>]
    /\ IF active_session = NoSession
       THEN Return(t, "AttributeError", <<>>, <<>>)
       ELSE Suspend(t, "aexit", "none", FALSE, active_session, <<>>, NoResult, <<>>)
    /\ UNCHANGED <<user_creds, config, active_session, sessions, now>>

\* AsUserSteps with the refresh inside the loop over the requests
AsUserSteps_RefreshPerRequest(reqs, e, o) ==
    LET creds == IF e = "True" THEN refresh(user_creds, client_creds, o) ELSE user_creds
        each(i) == IF e = "True"
                   THEN <<<<"refresh", user_creds, client_creds, creds>>,
                          <<"authorize", "oauth2", reqs[i], creds>>>>
                   ELSE <<<<"authorize", "oauth2", reqs[i], creds>>>>
        calls[n \in 0..Len(reqs)] == IF n = 0 THEN <<>> ELSE calls[n - 1] \o each(n)
    IN  [user_creds |-> creds,
         authorized |-> [i \in 1..Len(reqs) |-> authorize("oauth2", reqs[i], creds)],
         log |-> <<<<"is_expired", user_creds, now>>>> \o calls[Len(reqs)]]

\* AsUserSteps authorizing the requests from the last to the first
AsUserSteps_ReverseOrder(reqs, e, o) ==
    LET creds == IF e = "True" THEN refresh(user_creds, client_creds, o) ELSE user_creds
        called == IF e = "True"
                  THEN <<<<"is_expired", user_creds, now>>,
                         <<"refresh", user_creds, client_creds, creds>>>>
                  ELSE <<<<"is_expired", user_creds, now>>>>
        rev(i) == reqs[Len(reqs) + 1 - i]
    IN  [user_creds |-> creds,
         authorized |-> [i \in 1..Len(reqs) |-> authorize("oauth2", rev(i), creds)],
         log |-> called \o [i \in 1..Len(reqs) |-> <<"authorize", "oauth2", rev(i), creds>>]]

\* AsUserSteps refreshing whatever is_expired answered
AsUserSteps_AlwaysRefresh(reqs, e, o) ==
    LET creds == refresh(user_creds, client_creds, o)
    IN  [user_creds |-> creds,
         authorized |-> [i \in 1..Len(reqs) |-> authorize("oauth2", reqs[i], creds)],
         log |-> <<<<"is_expired", user_creds, now>>,
                   <<"refresh", user_creds, client_creds, creds>>>>
                 \o [i \in 1..Len(reqs) |-> <<"authorize", "oauth2", reqs[i], creds>>]]

\* as_user up to `await self.active_session.send`: the stored credential
\* after the refresh step, the authorized requests, and what was called, in
\* order; e is what is_expired answered and o what the token endpoint would
\* answer to a refresh.
AsUserSteps(reqs, e, o) ==
    LET creds == IF e = "True" THEN refresh(user_creds, client_creds, o) ELSE user_creds
        called == IF e = "True"
                  THEN <<<<"is_expired", user_creds, now>>,
                         <<"refresh", user_creds, client_creds, creds>>>>
                  ELSE <<<<"is_expired", user_creds, now>>>>
    IN  [user_creds |-> creds,
         authorized |-> [i \in 1..Len(reqs) |-> authorize("oauth2", reqs[i], creds)],
         log |-> called \o [i \in 1..Len(reqs) |-> <<"authorize", "oauth2", reqs[i], creds>>]]

as_user(t, reqs) ==
    /\ pc[t] = "idle"
    /\ op' = [op EXCEPT ![t] = "as_user"]
    /\ args' = [args EXCEPT ![t] = reqs]
    /\ \E e \in is_expired(user_creds) :
         IF e = "TypeError"
         THEN /\ Return(t, e, <<>>, <<<<"is_expired", user_creds, now>>>>)
              /\ UNCHANGED user_creds
         ELSE \E o \in (IF e = "True" THEN RefreshOutcomes ELSE {"UserCreds"}) :
                LET s == AsUserSteps(reqs, e, o)
                IN  /\ user_creds' = s.user_creds
                    /\ SendOn(t, "none", FALSE, active_session, s.authorized, s.log)
    /\ UNCHANGED <<config, active_session, sessions, now>>

\* AsApiKeySteps falling back to the user credentials when no key is stored
AsApiKeySteps_FallsBackToUser(reqs) ==
    LET mgr == IF api_key = None THEN "oauth2" ELSE "api_key"
        cred == IF api_key = None THEN user_creds ELSE api_key
    IN  [authorized |-> [i \in 1..Len(reqs) |-> authorize(mgr, reqs[i], cred)],
         log |-> [i \in 1..Len(reqs) |-> <<"authorize", mgr, reqs[i], cred>>]]

\* as_api_key up to `await self.active_session.send`: the authorized requests
\* and what was called, in order
AsApiKeySteps(reqs) ==
    [authorized |-> [i \in 1..Len(reqs) |-> authorize("api_key", reqs[i], api_key)],
     log |-> [i \in 1..Len(reqs) |-> <<"authorize", "api_key", reqs[i], api_key>>]]

\* as_api_key running as_user's expiry check before it authorizes
as_api_key_ChecksExpiry(t, reqs) ==
    /\ pc[t] = "idle"
    /\ op' = [op EXCEPT ![t] = "as_api_key"]
    /\ args' = [args EXCEPT ![t] = reqs]
    /\ LET e == user_creds.kind = "UserCreds" /\ user_creds.expires_at <= now
           creds == IF e THEN refresh(user_creds, client_creds, "UserCreds")
                    ELSE user_creds
           called == IF e
                     THEN <<<<"is_expired", user_creds, now>>,
                            <<"refresh", user_creds, client_creds, creds>>>>
                     ELSE <<<<"is_expired", user_creds, now>>>>
           s == AsApiKeySteps(reqs)
       IN  /\ user_creds' = creds
           /\ SendOn(t, "none", FALSE, active_session, s.authorized, called \o s.log)
    /\ UNCHANGED <<config, active_session, sessions, now>>

as_api_key(t, reqs) ==
    /\ pc[t] = "idle"
    /\ op' = [op EXCEPT ![t] = "as_api_key"]
    /\ args' = [args EXCEPT ![t] = reqs]
    /\ LET s == AsApiKeySteps(reqs)
       IN  SendOn(t, "none", FALSE, active_session, s.authorized, s.log)
    /\ UNCHANGED <<user_creds, config, active_session, sessions, now>>

as_anon(t, reqs) ==
    /\ pc[t] = "idle"
    /\ op' = [op EXCEPT ![t] = "as_anon"]
    /\ args' = [args EXCEPT ![t] = reqs]
    /\ SendOn(t, "none", FALSE, active_session, reqs, <<>>)
    /\ UNCHANGED <<user_creds, config, active_session, sessions, now>>

list_api(t, name, preffered) ==
    /\ pc[t] = "idle"
    /\ Room(1)
    /\ op' = [op EXCEPT ![t] = "list_api"]
    /\ args' = [args EXCEPT ![t] = <<name, preffered>>]
    /\ Dispatch(t, "list_api", apis_list(name, preffered, "None"),
                active_session, sessions, <<>>)
    /\ UNCHANGED <<user_creds, config, active_session, now>>

discover(t, api_name, api_version) ==
    /\ pc[t] = "idle"
    /\ Room(IF api_version = "None" THEN 2 ELSE 1)
    /\ op' = [op EXCEPT ![t] = "discover"]
    /\ args' = [args EXCEPT ![t] = <<api_name, api_version>>]
    /\ IF api_version = "None"
       THEN Dispatch(t, "list_api", apis_list(api_name, "True", "None"),
                     active_session, sessions, <<>>)
       ELSE Dispatch(t, "discover", apis_getRest(api_name, api_version),
                     active_session, sessions, <<>>)
    /\ UNCHANGED <<user_creds, config, active_session, now>>

\* ------------------------------------------------------- resumptions
\* `self.active_session = await self.session_factory(...).__aenter__()` is
\* resumed: the assignment, then `return self` or the body of the async with.
AenterResume(t) ==
    /\ pc[t] = "aenter"
    /\ active_session' = sess[t]
    /\ IF wrapped[t]
       THEN SendOn(t, frame[t], TRUE, sess[t], batch[t], log[t])
       ELSE Return(t, "none", <<>>, log[t])
    /\ UNCHANGED <<user_creds, config, sessions, now, op, args>>

\* the responses of the transport to the batch b
Responses(b, items) ==
    [i \in 1..Len(b) |->
        [to |-> b[i].method,
         items |-> IF b[i].method = "apis.list" THEN items ELSE <<>>]]

Answers(b) ==
    IF \E i \in 1..Len(b) : b[i].method = "apis.list" THEN ItemLists ELSE {<<>>}

\* `await self.active_session.send(...)` is resumed with responses
SendReturns(t) ==
    /\ pc[t] = "send"
    /\ \E items \in Answers(batch[t]) :
         LET v == Responses(batch[t], items)
             lg == Append(log[t], <<"response", sess[t], v>>)
         IN  IF wrapped[t]
             THEN BeginExit(t, [exc |-> "none", value |-> v], lg) /\ UNCHANGED sessions
             ELSE IF frame[t] = "none"
                  THEN Return(t, "none", v, lg) /\ UNCHANGED sessions
                  ELSE AfterAnon(t, v, active_session, sessions, lg)
    /\ UNCHANGED <<user_creds, config, active_session, now, op, args>>

\* `await self.active_session.send(...)` is resumed with a transport error
SendRaises(t) ==
    /\ pc[t] = "send"
    /\ IF wrapped[t]
       THEN BeginExit(t, [exc |-> "TransportError", value |-> <<>>], log[t])
       ELSE Return(t, "TransportError", <<>>, log[t])
    /\ UNCHANGED <<user_creds, config, active_session, sessions, now, op, args>>

\* `await self.active_session.__aexit__(*args)` is resumed: the session is
\* released, then `self.active_session = None`, then what follows the
\* `async with` (the body's exception, if any, is raised again).
AexitReturns(t) ==
    /\ pc[t] = "aexit"
    /\ active_session' = NoSession
    /\ LET ss == [sessions EXCEPT ![sess[t]].state = "released"]
           lg == Append(log[t], <<"release", sess[t]>>)
       IN  IF ~wrapped[t]
           THEN sessions' = ss /\ Return(t, "none", <<>>, lg)
           ELSE IF body[t].exc # "none"
                THEN sessions' = ss /\ Return(t, body[t].exc, <<>>, lg)
                ELSE AfterAnon(t, body[t].value, NoSession, ss, lg)
    /\ UNCHANGED <<user_creds, config, now, op, args>>

\* the session's own __aexit__ raises: line 272 is not reached.  Whether the
\* transport got released before it raised is the transport's business.
AexitRaises(t) ==
    /\ pc[t] = "aexit"
    /\ \E st \in {"live", "released"} :
         sessions' = [sessions EXCEPT ![sess[t]].state =
                         IF @ = "released" THEN @ ELSE st]
    /\ Return(t, "SessionExitError", <<>>, Append(log[t], <<"release failed", sess[t]>>))
    /\ UNCHANGED <<user_creds, config, active_session, now, op, args>>

\* time passes
Tick ==
    /\ now < MaxTime
    /\ now' = now + 1
    /\ UNCHANGED <<api_key, user_creds, client_creds, timeout, active_session,
                   sessions, pc, op, args, frame, wrapped, sess, batch, body, result,
                   log>>

Step(t) ==
    \/ aenter(t)
    \/ aexit(t)
    \/ \E reqs \in Batches : as_anon(t, reqs)
    \/ \E reqs \in Batches : as_api_key(t, reqs)
    \/ \E reqs \in Batches : as_user(t, reqs)
    \/ \E p \in {"None", "True"} : list_api(t, "youtube", p)
    \/ \E v \in {"None", "v3"} : discover(t, "youtube", v)
    \/ AenterResume(t)
    \/ SendReturns(t)
    \/ SendRaises(t)
    \/ AexitReturns(t)
    \/ AexitRaises(t)

\* calls issued one after another by one caller
Caller == CHOOSE t \in Tasks : \A u \in Tasks : t <= u
Next == Step(Caller) \/ Tick
Spec == Init /\ [][Next]_vars

\* The entry points whose awaits let calls on one instance overlap in a way
\* that matters: each task issues one of them, after entering the scope or
\* not, and the tasks interleave at the awaits.
FirstCall(t) == pc[t] = "idle" => op[t] \in {"none", "aenter"}

ConcStep(t) ==
    \/ aenter(t)
    \/ \E reqs \in Batches : as_user(t, reqs)
    \/ \E p \in {"None", "True"} : list_api(t, "youtube", p)
    \/ \E v \in {"None", "v3"} : discover(t, "youtube", v)
    \/ AenterResume(t)
    \/ SendReturns(t)
    \/ SendRaises(t)
    \/ AexitReturns(t)
    \/ AexitRaises(t)

ConcNext == \E t \in Tasks : FirstCall(t) /\ ConcStep(t)
\* api_key and timeout are read by none of these entry points' decisions
ConcInit == Init /\ api_key = None /\ timeout = "None"
ConcSpec == ConcInit /\ [][ConcNext]_vars

\* ------------------------------------------------------- reading the log
Events(t, kind) == {k \in 1..Len(log[t]) : log[t][k][1] = kind}

\* the credential as_user found stored when it was called
StoredAtStart(t) == log[t][1][2]

InAsUser(t) == op[t] = "as_user" /\ Len(log[t]) > 0

\* task t is in (or has just left) an as_user call that began with a stored
\* UserCreds whose expiry had passed / had not passed
ExpiredAtStart(t) ==
    /\ InAsUser(t)
    /\ StoredAtStart(t).kind = "UserCreds"
    /\ StoredAtStart(t).expires_at <= log[t][1][3]

FreshAtStart(t) ==
    /\ InAsUser(t)
    /\ StoredAtStart(t).kind = "UserCreds"
    /\ StoredAtStart(t).expires_at > log[t][1][3]

\* ... and nothing else is missing: client credentials are configured and a
\* session is active
Refreshable(t) ==
    /\ ExpiredAtStart(t)
    /\ client_creds = ClientCreds
    /\ active_session # NoSession

\* a UserCreds whose expiry had not passed when the call began
FreshCreds(t, c) == c.kind = "UserCreds" /\ c.expires_at > log[t][1][3]

Finished(t) == pc[t] = "idle" /\ op[t] # "none"

\* list_api and discover calls issued concurrently on a new instance, one per
\* task, with a transport that answers every request and releases every
\* session; the credentials and the timeout are read by none of their
\* decisions.
AutoStep(t) ==
    \/ \E p \in {"None", "True"} : list_api(t, "youtube", p)
    \/ \E v \in {"None", "v3"} : discover(t, "youtube", v)
    \/ AenterResume(t)
    \/ SendReturns(t)
    \/ AexitReturns(t)

AutoNext == \E t \in Tasks : (pc[t] = "idle" => op[t] = "none") /\ AutoStep(t)
AutoInit ==
    Init /\ api_key = None /\ user_creds = None /\ client_creds = None /\ timeout = "None"
AutoSpec == AutoInit /\ [][AutoNext]_vars

\* ------------------------------------------------------- claims
\* C1: in an as_user call that finds the stored UserCreds expired (client
\* credentials configured, a session active), the stored credential is
\* replaced by a refreshed (unexpired) UserCreds before any request is
\* authorized, so every request is authorized, and sent, with an unexpired
\* UserCreds.
C1_ExpiredNeverUsed ==
    \A t \in Tasks :
        Refreshable(t) =>
            /\ \A k \in Events(t, "authorize") : FreshCreds(t, log[t][k][4])
            /\ \A k \in Events(t, "send") :
                 \A i \in 1..Len(log[t][k][3]) :
                     FreshCreds(t, log[t][k][3][i].auth.cred)

\* C2: an as_user call that finds the stored UserCreds expired calls refresh
\* exactly once, whatever the batch size, and before its first authorize.
C2_OneRefreshBeforeAuthorize ==
    \A t \in Tasks :
        ExpiredAtStart(t) =>
            /\ Cardinality(Events(t, "refresh")) = 1
            /\ \A r \in Events(t, "refresh") :
                 \A k \in Events(t, "authorize") : r < k
            /\ Cardinality(Events(t, "authorize")) >= 1

C2_Witness ==
    \E t \in Tasks :
        /\ ExpiredAtStart(t)
        /\ pc[t] = "send"
        /\ Len(batch[t]) = MaxBatch
        /\ Cardinality(Events(t, "authorize")) = MaxBatch

\* C3: an as_user call that finds the stored UserCreds not expired never calls
\* refresh, and the stored user_creds stays the value it was, during the call
\* and after it.
C3_FreshLeftAlone ==
    \A t \in Tasks :
        FreshAtStart(t) =>
            /\ Events(t, "refresh") = {}
            /\ user_creds = StoredAtStart(t)

C3_Witness ==
    \E t \in Tasks :
        /\ FreshAtStart(t)
        /\ Finished(t)
        /\ result[t].exc = "none"
        /\ Len(result[t].value) = MaxBatch

\* C4: when as_user finds the stored UserCreds expired and the refresh
\* succeeds, the stored credential becomes the completed new UserCreds
\* returned by refresh, every request is authorized with that stored value,
\* and none with the stale credential or with a refresh result that has not
\* completed.
C4_CompletedRefreshStored ==
    \A t \in Tasks :
        (Refreshable(t) /\ \E r \in Events(t, "refresh") :
                                log[t][r][4].outcome = "UserCreds") =>
            /\ user_creds.kind = "UserCreds"
            /\ user_creds # StoredAtStart(t)
            /\ \A k \in Events(t, "authorize") : log[t][k][4] = user_creds

\* C5: when the refresh of an as_user call fails, the call raises
\* AuthRefreshError, authorizes and sends nothing, and leaves the stored
\* user_creds and active_session as they were.
C5_RefreshFailureStopsCall ==
    \A t \in Tasks :
        (Refreshable(t) /\ \E r \in Events(t, "refresh") :
                                log[t][r][4].outcome = "AuthRefreshError") =>
            /\ Events(t, "authorize") = {}
            /\ Events(t, "send") = {}
            /\ user_creds = StoredAtStart(t)
            /\ Finished(t) => result[t].exc = "AuthRefreshError"

\* C6: as_user raises MissingCredentialsError, before any refresh, authorize
\* or send, when user_creds is None, and when user_creds is expired and
\* client_creds is None.
C6_MissingCredentials ==
    \A t \in Tasks :
        (InAsUser(t) /\ (\/ StoredAtStart(t) = None
                         \/ ExpiredAtStart(t) /\ client_creds = None)) =>
            /\ Events(t, "refresh") = {}
            /\ Events(t, "authorize") = {}
            /\ Events(t, "send") = {}
            /\ Finished(t) /\ result[t].exc = "MissingCredentialsError"

\* C7: at most one session made by the instance is live (created and not
\* released) at any time.
C7_AtMostOneLive == Cardinality(Live(sessions)) <= 1

\* C8: as_user, as_api_key or as_anon called while active_session is None
\* makes a session, sends the batch on it and releases it: the call does not
\* fail for lack of a session, and active_session is None again afterwards.
C8_AutoSession ==
    \A t \in Tasks :
        (Finished(t) /\ op[t] \in {"as_user", "as_api_key", "as_anon"}
                     /\ active_session = NoSession) =>
            /\ result[t].exc # "AttributeError"
            /\ result[t].exc \in {"none", "TransportError"} =>
                 /\ Events(t, "create") # {}
                 /\ Events(t, "send") # {}
                 /\ Events(t, "release") # {}

\* the call of task t was list_api or discover, begun with no active session
AutoWrapped(t) ==
    /\ op[t] \in {"list_api", "discover"}
    /\ Len(log[t]) > 0
    /\ log[t][1][1] = "create"

\* C9: list_api or discover called alone with no active session: every send
\* is on a session made just before it for that request, one session is made
\* per request sent, every session made is released, and active_session is
\* None when the call has returned or raised.
C9_ScopedPerRequest ==
    \A t \in Tasks :
        AutoWrapped(t) /\ Finished(t) =>
            /\ \A k \in Events(t, "send") :
                 k > 1 /\ log[t][k - 1] = <<"create", log[t][k][2]>>
            /\ Cardinality(Events(t, "create")) = Cardinality(Events(t, "send"))
            /\ \A k \in Events(t, "create") : sessions[log[t][k][2]].state = "released"
            /\ active_session = NoSession

\* the last thing the call of task t did was to leave the scope on session h
Exited(t, h) ==
    /\ Finished(t)
    /\ Len(log[t]) > 0
    /\ log[t][Len(log[t])][1] \in {"release", "release failed"}
    /\ log[t][Len(log[t])][2] = h

\* C10: once __aexit__ has run, the session is released and active_session is
\* None: after a body that completed, after a body that raised, and when the
\* release itself raised.
C10_ExitAlwaysReleases ==
    \A t \in Tasks : \A h \in 1..Len(sessions) :
        Exited(t, h) =>
            /\ sessions[h].state = "released"
            /\ active_session = NoSession

\* C11: every session __aenter__ made was made by session_factory with the
\* configured timeout, and a released session is neither stored as
\* active_session nor sent on.
C11_FreshHandlePerScope ==
    /\ \A h \in 1..Len(sessions) : sessions[h].timeout = timeout
    /\ active_session # NoSession => sessions[active_session].state = "live"
    /\ \A t \in Tasks : pc[t] = "send" => sessions[sess[t]].state = "live"

\* a step of task t's call to one of the entry points in ops: the call itself
\* or one of its resumptions
StepOf(t, ops) ==
    /\ op'[t] \in ops
    /\ <<pc[t], op[t], args[t], log[t], result[t]>>
         # <<pc'[t], op'[t], args'[t], log'[t], result'[t]>>

\* what the call of task t has invoked so far, after the step
InvokedNone(t, kinds) == \A k \in 1..Len(log'[t]) : log'[t][k][1] \notin kinds

\* C12: no step of an as_api_key or as_anon call invokes is_expired or
\* refresh, and none changes the stored user_creds, whatever user_creds and
\* client_creds are.
C12_KeyAndAnonLeaveUserCreds ==
    [][\A t \in Tasks :
          StepOf(t, {"as_api_key", "as_anon"}) =>
              /\ InvokedNone(t, {"is_expired", "refresh"})
              /\ user_creds' = user_creds]_vars

\* an as_api_key call has sent its batch while the stored UserCreds is expired
\* and client credentials are configured
C12_Witness ==
    \E t \in Tasks :
        /\ op[t] = "as_api_key"
        /\ pc[t] = "send"
        /\ user_creds.kind = "UserCreds"
        /\ user_creds.expires_at <= now
        /\ client_creds = ClientCreds

\* the call of task t got as far as authorizing its requests
Authorizing(t, name) ==
    /\ op[t] = name
    /\ pc[t] = "send" \/ (pc[t] = "idle" /\ result[t].exc # "TypeError")

\* in the call of task t every request passed was authorized once, by mgr
\* with cred, and nothing else was authorized
AuthorizedOnceBy(t, mgr, cred) ==
    /\ Cardinality(Events(t, "authorize")) = Len(args[t])
    /\ \A i \in 1..Len(args[t]) :
         \E k \in Events(t, "authorize") : log[t][k] = <<"authorize", mgr, args[t][i], cred>>
    /\ \A k \in Events(t, "send") :
         \A i \in 1..Len(log[t][k][3]) :
             log[t][k][3][i].auth = [mgr |-> mgr, cred |-> cred]

\* C13: a call authorizes each of its requests exactly once and only with its
\* own strategy: as_user with the OAuth2 manager and the stored user_creds,
\* as_api_key with the API-key manager and api_key, as_anon not at all.
C13_OnlyOwnStrategy ==
    \A t \in Tasks :
        /\ Authorizing(t, "as_user") => AuthorizedOnceBy(t, "oauth2", user_creds)
        /\ Authorizing(t, "as_api_key") => AuthorizedOnceBy(t, "api_key", api_key)
        /\ op[t] = "as_anon" =>
             /\ Events(t, "authorize") = {}
             /\ \A k \in Events(t, "send") :
                  \A i \in 1..Len(log[t][k][3]) : log[t][k][3][i].auth = NoAuth

\* an as_api_key call has sent a full batch with no api_key stored while
\* user credentials are
C13_Witness ==
    \E t \in Tasks :
        /\ op[t] = "as_api_key"
        /\ pc[t] = "send"
        /\ Len(args[t]) = MaxBatch
        /\ api_key = None
        /\ user_creds.kind = "UserCreds"

\* the place of authorize event k among the authorize events of task t's call
Place(t, k) == Cardinality({j \in Events(t, "authorize") : j <= k})

\* the authorize event of task t's call at place i
AuthorizeAt(t, i) == log[t][CHOOSE k \in Events(t, "authorize") : Place(t, k) = i]

\* the requests of task t's call were authorized in the order passed, and
\* what was sent is the authorized requests in that order
InInputOrder(t) ==
    /\ \A k \in Events(t, "authorize") : log[t][k][3] = args[t][Place(t, k)]
    /\ \A k \in Events(t, "send") :
         /\ Len(log[t][k][3]) = Len(args[t])
         /\ \A i \in 1..Len(args[t]) :
              log[t][k][3][i] = authorize(AuthorizeAt(t, i)[2], args[t][i], AuthorizeAt(t, i)[4])

\* C14: as_user and as_api_key authorize the requests in the order passed and
\* hand send a sequence as long as the batch, its i-th element the
\* authorization of the i-th request; as_anon hands send the batch as passed.
C14_BatchOrderKept ==
    \A t \in Tasks :
        /\ op[t] \in {"as_user", "as_api_key"} => InInputOrder(t)
        /\ op[t] = "as_anon" => \A k \in Events(t, "send") : log[t][k][3] = args[t]

\* an as_user call has sent a batch of more than one request
C14_Witness ==
    \E t \in Tasks :
        /\ op[t] = "as_user"
        /\ pc[t] = "send"
        /\ Len(args[t]) = MaxBatch
        /\ Len(batch[t]) > 1

\* every request the call of task t has sent, after the step, is unauthorized
SentUnauthorized(t) ==
    \A k \in 1..Len(log'[t]) :
        log'[t][k][1] = "send" =>
            \A i \in 1..Len(log'[t][k][3]) : log'[t][k][3][i].auth = NoAuth

\* C15: no step of a list_api or discover call invokes is_expired, refresh or
\* an authorize, every request it sends is sent unauthorized, and none changes
\* the stored user_creds, whatever credentials are configured.
C15_DiscoveryIsAnonymous ==
    [][\A t \in Tasks :
          StepOf(t, {"list_api", "discover"}) =>
              /\ InvokedNone(t, {"is_expired", "refresh", "authorize"})
              /\ SentUnauthorized(t)
              /\ user_creds' = user_creds]_vars

\* a discover call has sent its second request (getRest after the list) while
\* an api_key, expired user credentials and client credentials are configured
C15_Witness ==
    \E t \in Tasks :
        /\ op[t] = "discover"
        /\ pc[t] = "send"
        /\ Cardinality(Events(t, "send")) = 2
        /\ api_key = ApiKey
        /\ user_creds.kind = "UserCreds"
        /\ user_creds.expires_at <= now
        /\ client_creds = ClientCreds

\* the sends of task t's call of the discovery method m
SendsOf(t, m) == {k \in Events(t, "send") : log[t][k][3][1].method = m}

\* the answers to the list request of task t's call: the items listed
Listed(t) ==
    {log[t][j][3][1].items :
        j \in {i \in Events(t, "response") : log[t][i][3][1].to = "apis.list"}}

\* what discover does to resolve a version, err being the exception it raises
\* when the directory lists nothing under the name.  A call whose session
\* release raised has raised that exception instead.
DiscoverResolves(err) ==
    \A t \in Tasks :
        op[t] = "discover" =>
            IF args[t][2] # "None"
            THEN /\ SendsOf(t, "apis.list") = {}
                 /\ \A k \in Events(t, "send") :
                      log[t][k][3] = <<apis_getRest(args[t][1], args[t][2])>>
            ELSE /\ \A k \in SendsOf(t, "apis.list") :
                      /\ log[t][k][3] = <<apis_list(args[t][1], "True", "None")>>
                      /\ \A j \in Events(t, "send") : k <= j
                 /\ \A k \in SendsOf(t, "apis.getRest") :
                      \E j \in Events(t, "response") :
                          /\ j < k
                          /\ log[t][j][3][1].to = "apis.list"
                          /\ log[t][j][3][1].items # <<>>
                          /\ log[t][k][3] =
                               <<apis_getRest(log[t][j][3][1].items[1].name,
                                              log[t][j][3][1].items[1].version)>>
                 /\ \A items \in Listed(t) :
                      IF items = <<>>
                      THEN /\ SendsOf(t, "apis.getRest") = {}
                           /\ Finished(t) /\ Events(t, "release failed") = {}
                                => result[t].exc = err
                      ELSE /\ result[t].exc # err
                           /\ Finished(t) /\ result[t].exc = "none"
                                => SendsOf(t, "apis.getRest") # {}

InOpenScope(t) ==
    IF pc[t] = "idle"
    THEN active_session # NoSession
    ELSE Len(log[t]) > 0 /\ log[t][1][1] = "send"

\* C20: every step of a list_api or discover call made while a session is
\* active makes no session, releases none, sends only on the active session,
\* and leaves active_session and the sessions as they were: when it sends,
\* when it returns and when it raises.
C20_OpenScopeUntouched ==
    [][\A t \in Tasks :
          StepOf(t, {"list_api", "discover"}) /\ InOpenScope(t) =>
              /\ InvokedNone(t, {"create", "release", "release failed"})
              /\ \A k \in 1..Len(log'[t]) :
                   log'[t][k][1] = "send" => log'[t][k][2] = active_session
              /\ active_session' = active_session
              /\ sessions' = sessions]_vars

\* a discover call made in an open scope has sent both its requests on the
\* active session and returned; the session is live
C20_Witness ==
    \E t \in Tasks :
        /\ op[t] = "discover"
        /\ Finished(t)
        /\ result[t].exc = "none"
        /\ Cardinality(Events(t, "send")) = 2
        /\ Events(t, "create") = {}
        /\ active_session # NoSession
        /\ sessions[active_session].state = "live"

\* task t has invoked refresh in its call
Refreshed(t) == Events(t, "refresh") # {}

\* At most one of the overlapping as_user calls invokes refresh: as_user has
\* no await between is_expired and the store of what refresh returned, so a
\* call that begins while another is suspended finds that value stored.
AtMostOneRefresh == Cardinality({t \in Tasks : op[t] = "as_user" /\ Refreshed(t)}) <= 1

Auto == {"list_api", "discover"}

\* task t is in a list_api or discover call and holds a session it made and
\* has not released
Holding(t) ==
    /\ op[t] \in Auto
    /\ pc[t] # "idle"
    /\ wrapped[t]
    /\ sessions[sess[t]].state = "live"

\* C18 as claimed: of the list_api and discover calls that overlap on an
\* instance with no active session only one makes a session; no two of them
\* hold a session of their own at once.
C18_CreationSerialized ==
    \A t \in Tasks : \A u \in Tasks \ {t} :
        Holding(t) /\ Holding(u) => sess[t] = sess[u]

\* C18: session creation is not serialized: a list_api or discover call that
\* begins with no active session makes a session of its own, also while
\* another call is making one, and when its session is entered it stores it
\* as active_session and sends on it.
C18_EachCallCreatesItsOwn ==
    [][\A t \in Tasks :
          StepOf(t, Auto) =>
              /\ pc[t] = "idle" /\ active_session = NoSession =>
                   /\ sessions' = Append(sessions, session_factory(timeout))
                   /\ pc'[t] = "aenter"
                   /\ sess'[t] = Len(sessions')
              /\ pc[t] = "aenter" =>
                   /\ active_session' = sess[t]
                   /\ pc'[t] = "send"
                   /\ log'[t] = Append(log[t], <<"send", sess[t], batch[t]>>)]_vars

\* two overlapping calls have each made a session, and one of them has sent
\* on its own
C18_Witness ==
    \E t \in Tasks : \E u \in Tasks \ {t} :
        /\ Holding(t) /\ Holding(u)
        /\ sess[t] # sess[u]
        /\ pc[t] = "send"
        /\ pc[u] = "aenter"

\* C19: in overlapping list_api and discover calls every send is on a live
\* session for as long as it lasts, every release is of a live session, and no
\* call finds active_session reset to None when it leaves its scope.
C19_ScopesDoNotInterfere ==
    \A t \in Tasks :
        op[t] \in Auto =>
            /\ pc[t] \in {"send", "aexit"} => sessions[sess[t]].state = "live"
            /\ pc[t] = "aexit" => sess[t] \in {log[t][k][2] : k \in Events(t, "create")}
            /\ result[t].exc # "AttributeError"

====
